---- MODULE Spec2Model ----
(***************************************************************************)
(* State-machine model of viofosync.py: the download engine                *)
(* (download_file), destination preparation, the catalog client and the    *)
(* one-shot sync cycle driven by run().                                    *)
(*                                                                         *)
(* The dashcam and the local file system are the environment: every HTTP   *)
(* request has the outcomes urllib can produce (a response, URLError,      *)
(* socket.timeout, RemoteDisconnected, a connection reset), chosen         *)
(* nondeterministically.                                                   *)
(***************************************************************************)
EXTENDS Integers, Sequences, FiniteSets, TLC

(* ------------------------------ bounds -------------------------------- *)
\* number of direct invocations of download_file by a caller
MaxCalls == 2
\* number of File elements in a catalog response
MaxCatalog == 2
\* number of polling cycles of monitor_loop that are followed
MaxCycles == 2
\* number of entries in the table of a gps box
MaxEntries == 2
\* number of box headers parse_moov is followed through
MaxHeaderReads == 8

(* --------------------------- Python values ---------------------------- *)
\* Python None where a size is expected (get_remote_size, line 162)
NoSize == -1
\* os.path.exists(path) is False
NoFile == -1
\* Python None / empty value where a group name is expected (line 381)
NoGroup == <<>>
\* the process has not exited
NoExit == -1
\* cutoff_date = None (line 88)
NoCutoff == <<>>
\* recording_filter is None (args.filter without -f)
NoFilter == {}

\* byte counts observed on the wire and on disk, in whole blocks
Sizes == {500, 1000}
\* size of a file after one more block has been written to it
NextSize(w) == CHOOSE s \in Sizes : s > w /\ \A t \in Sizes : t > w => s <= t
MaxSize == CHOOSE s \in Sizes : \A t \in Sizes : t <= s

(* ----------------------------- calendar ------------------------------- *)
\* datetime.date: proleptic Gregorian ordinal, as datetime.toordinal()
IsLeap(y) == (y % 4 = 0) /\ ((y % 100 # 0) \/ (y % 400 = 0))

DaysInMonth(y, m) ==
    IF m = 2 THEN (IF IsLeap(y) THEN 29 ELSE 28)
    ELSE IF m \in {4, 6, 9, 11} THEN 30 ELSE 31

RECURSIVE DaysBeforeMonth(_, _)
DaysBeforeMonth(y, m) ==
    IF m = 1 THEN 0 ELSE DaysBeforeMonth(y, m - 1) + DaysInMonth(y, m - 1)

DaysBeforeYear(y) ==
    (y - 1) * 365 + ((y - 1) \div 4) - ((y - 1) \div 100) + ((y - 1) \div 400)

ToOrdinal(d) == DaysBeforeYear(d[1]) + DaysBeforeMonth(d[1], d[2]) + d[3]

\* a week that starts on Sunday
Weekday_SundayFirst(d) == ToOrdinal(d) % 7

\* date.weekday(): Monday is 0
Weekday(d) == (ToOrdinal(d) + 6) % 7

\* date - timedelta(days=n): n steps back through the calendar
PrevDay(d) ==
    IF d[3] > 1 THEN <<d[1], d[2], d[3] - 1>>
    ELSE IF d[2] > 1 THEN <<d[1], d[2] - 1, DaysInMonth(d[1], d[2] - 1)>>
    ELSE <<d[1] - 1, 12, 31>>

RECURSIVE DateMinusDays(_, _)
DateMinusDays(d, n) == IF n = 0 THEN d ELSE DateMinusDays(PrevDay(d), n - 1)

\* recording.datetime.date()
DateOf(dt) == <<dt[1], dt[2], dt[3]>>

\* date1 < date2 and datetime1 < datetime2 (lexicographic on the fields)
RECURSIVE TupleLess(_, _)
TupleLess(a, b) ==
    IF a = <<>> \/ b = <<>> THEN FALSE
    ELSE IF Head(a) # Head(b) THEN Head(a) < Head(b)
    ELSE TupleLess(Tail(a), Tail(b))

Groupings == {"none", "daily", "weekly", "monthly", "yearly"}

\* get_group_name: the label is the tuple of the numeric fields strftime
\* prints ("%Y-%m-%d" -> <<y,m,d>>, "%Y-%m" -> <<y,m>>, "%Y" -> <<y>>)
get_group_name(recording_datetime, grouping) ==
    LET d == DateOf(recording_datetime) IN
    IF grouping = "daily" THEN d
    ELSE IF grouping = "weekly" THEN DateMinusDays(d, Weekday(d))
    ELSE IF grouping = "monthly" THEN <<d[1], d[2]>>
    ELSE IF grouping = "yearly" THEN <<d[1]>>
    ELSE NoGroup

\* group_name_globs: "[0-9]x4-[0-9]x2-[0-9]x2" etc. match a label by its
\* number of fields; grouping "none" has no group directory level
GroupGlobMatches(label, grouping) ==
    IF grouping \in {"daily", "weekly"} THEN Len(label) = 3
    ELSE IF grouping = "monthly" THEN Len(label) = 2
    ELSE IF grouping = "yearly" THEN Len(label) = 1
    ELSE label = NoGroup

(* ---------------------------- recordings ------------------------------ *)
\* A filename is the tuple of the groups of downloaded_filename_re:
\* <<year, month, day, hour, minute, second, sequence, camera>>
FName(y, mo, d, h, mi, s, seq, cam) == <<y, mo, d, h, mi, s, seq, cam>>

\* Recording namedtuple (filename, size, datetime); filepath is the
\* device path of the same name, timecode and attr are never read
Recording(fn, sz, dt) == [filename |-> fn, size |-> sz, datetime |-> dt]

\* 2024_0615_120000_000001F.MP4, 1000 bytes, TIME 2024/06/15 12:00:00
RecA == Recording(FName(2024, 6, 15, 12, 0, 0, 1, "F"), 1000, <<2024, 6, 15, 12, 0, 0>>)
\* 2024_0601_080000_000002R.MP4
RecB == Recording(FName(2024, 6, 1, 8, 0, 0, 2, "R"), 1000, <<2024, 6, 1, 8, 0, 0>>)
\* 2024_0531_235930_000003F.MP4, whose TIME field is past midnight
RecC == Recording(FName(2024, 5, 31, 23, 59, 30, 3, "F"), 1000, <<2024, 6, 1, 0, 0, 30>>)

Universe == {RecA, RecB, RecC}
FileNames == { r.filename : r \in Universe }

\* date encoded in a local filename (get_downloaded_recordings, 246-249)
FileNameDate(fn) == <<fn[1], fn[2], fn[3]>>

\* "f in r.filename" for a filter token that is a camera letter: the other
\* characters of a recording name are digits, '_' and ".MP4"
TokenInFilename(f, fn) == fn[8] = f

GroupLabels == { get_group_name(r.datetime, g) : r \in Universe, g \in Groupings }
Paths == GroupLabels \X FileNames

\* get_filepath / dest_path: destination[/group_name]/filename
get_filepath(group_name, filename) == <<group_name, filename>>

(* ------------------------------- state -------------------------------- *)
VARIABLES
    entry,              \* which function the caller invoked
    pc,                 \* position in the running function
    dry_run,            \* global dry_run / parameter dry_run of download_file
    cutoff_date,        \* global cutoff_date
    grouping,           \* args.grouping
    download_priority,  \* args.priority
    recording_filter,   \* args.filter
    dstKind,            \* what the destination path is on disk
    grpKind,            \* what destination/<label> is on disk, per label
    files,              \* size of the file at each path, or NoFile
    gpx,                \* paths that have a ".gpx" sidecar
    fs0,                \* the file system when the current call began
    net0,               \* length of net when the current call began
    net,                \* requests issued and sleeps taken, in order
    recording,          \* parameter recording of download_file
    group_name,         \* parameter group_name of download_file
    first_size,         \* local first_size of download_file
    second_size,        \* local second_size of download_file
    probe_failed,       \* the except clause of lines 185-188 was entered
    content_length,     \* Content-Length of the body response, or NoSize
    results,            \* outcome of each finished download_file call
    listed,             \* the recordings in the order the device listed them
    dashcam_recordings, \* local dashcam_recordings of sync
    idx,                \* position of the for loop of sync (1-based)
    catalog_error,      \* how the catalog request failed, or "none"
    sync_result,        \* what sync returned or raised
    exit_status,        \* process exit status set by exit(run())
    last_sizes,         \* local last_sizes of monitor_loop, per filename
    to_download,        \* local to_download of monitor_loop
    cycle,              \* number of the current polling cycle
    monitor_result,     \* exception that left monitor_loop, or "none"
    arg,                \* arguments of a directly called function
    ret,                \* <<value>> once that function has returned
    mp4,                \* how the file given to extract_gps_data is laid out
    in_fh,              \* its content, a sequence of 4-byte words
    pos,                \* position of the file handle, in bytes
    offset,             \* locals of parse_moov
    atom_size,
    sub_offset,
    sub_atom_size,
    gps_offset,
    gps_data,
    header_reads,       \* number of in_fh.read(8) done for box headers
    last_read,          \* position of the latest of them
    gpx_content,        \* <<document>> once generate_gpx has returned
    gpx_file,           \* <<document>> once it is written to file_path + ".gpx"
    x_result            \* how extract_gps_data ended, or "none"

cfgVars == <<entry, dry_run, cutoff_date, grouping, download_priority, recording_filter>>
fsVars == <<dstKind, grpKind, files, gpx>>
dfVars == <<recording, group_name, first_size, second_size, probe_failed,
           content_length, results>>
syncVars == <<listed, dashcam_recordings, idx, catalog_error, sync_result, exit_status>>
callVars == <<fs0, net0>>
mVars == <<last_sizes, to_download, cycle, monitor_result>>
pVars == <<arg, ret>>
\* what monitor_loop never touches
xVars == <<mp4, in_fh, pos, offset, atom_size, sub_offset, sub_atom_size,
           gps_offset, gps_data, header_reads, last_read, gpx_content,
           gpx_file, x_result>>
xpVars == <<xVars, pVars>>
\* what download_file, sync and run() never touch
auxVars == <<mVars, xpVars>>
vars == <<cfgVars, pc, fsVars, callVars, net, dfVars, syncVars, auxVars>>

DirKinds == {"absent", "file", "dir", "readonly"}
IsDir(k) == k \in {"dir", "readonly"}

FileSystem == [dstKind |-> dstKind, grpKind |-> grpKind, files |-> files, gpx |-> gpx]

\* kind of the directory that holds path p
ParentKind(p) == IF p[1] = NoGroup THEN dstKind ELSE grpKind[p[1]]

NoFiles == [p \in Paths |-> NoFile]

(* ------------------------- download_file ------------------------------ *)
\* dest_path (lines 173-174)
dest_path == get_filepath(group_name, recording.filename)

\* a function returns or raises: the call is over and its outcome recorded
Finish(outcome) ==
    /\ results' = Append(results, outcome)
    /\ pc' = "idle"

\* value download_file hands to its caller for each way of leaving it
\* (lines 194, 203, 207, 218, 223, 230); the other outcomes are exceptions
Returns == [not_stable |-> FALSE, skipped |-> FALSE, dry_run |-> TRUE,
            downloaded |-> TRUE, failed |-> FALSE]

\* the test the callers put before extract_gps_data (lines 324 and 625):
\* the flag download_file returned and args.gps_extract, nothing else
ExtractsGps(downloaded, gps_extract) == downloaded /\ gps_extract

\* a caller invokes download_file(base_url, recording, destination,
\* group_name, socket_timeout, dry_run) with all six arguments
DownloadFileCall ==
    /\ entry = "download_file"
    /\ pc = "idle"
    /\ Len(results) < MaxCalls
    /\ group_name' = get_group_name(recording.datetime, grouping)
    /\ first_size' = NoSize
    /\ second_size' = NoSize
    /\ probe_failed' = FALSE
    /\ content_length' = NoSize
    /\ fs0' = FileSystem
    /\ net0' = Len(net)
    /\ pc' = "ensure"
    /\ UNCHANGED <<cfgVars, fsVars, net, recording, results, syncVars>>
    /\ UNCHANGED auxVars

\* ensure_destination(group_dir), called only when group_name is set
\* (lines 169-171, 361-368); os.makedirs also creates the destination
ensure_destination ==
    /\ pc = "ensure"
    /\ IF group_name = NoGroup
         THEN /\ pc' = "head1"
              /\ UNCHANGED <<fsVars, results>>
       ELSE IF ~IsDir(dstKind) \/ grpKind[group_name] = "absent"
         THEN \* os.path.exists(group_dir) is False: os.makedirs
              IF dstKind \in {"file", "readonly"}
                THEN /\ Finish("OSError")
                     /\ UNCHANGED fsVars
                ELSE /\ dstKind' = "dir"
                     /\ grpKind' = [grpKind EXCEPT ![group_name] = "dir"]
                     /\ pc' = "head1"
                     /\ UNCHANGED <<files, gpx, results>>
       ELSE IF grpKind[group_name] # "dir"
         THEN \* not a directory, or not writable
              /\ Finish("RuntimeError")
              /\ UNCHANGED fsVars
       ELSE /\ pc' = "head1"
            /\ UNCHANGED <<fsVars, results>>
    /\ UNCHANGED <<cfgVars, callVars, net, recording, probe_failed, group_name, first_size,
                   second_size, content_length, syncVars>>
    /\ UNCHANGED auxVars

\* the handler keeps the first probe's answer
SizeAfterProbeError_KeepsFirst(first) == first

\* line 188: after an exception in either probe, first_size is None
SizeAfterProbeError(first) == NoSize

\* first get_remote_size (line 182): a HEAD request; any exception makes
\* both sizes None (lines 185-188)
Head1 ==
    /\ pc = "head1"
    /\ net' = Append(net, "HEAD")
    /\ \/ \E s \in Sizes \cup {NoSize} :
            /\ first_size' = s
            /\ probe_failed' = FALSE
            /\ pc' = "head2"
       \/ /\ first_size' = SizeAfterProbeError(first_size)
          /\ probe_failed' = TRUE
          /\ pc' = "decide"
    /\ second_size' = NoSize
    /\ UNCHANGED <<cfgVars, fsVars, callVars, recording, group_name,
                   content_length, results, syncVars>>
    /\ UNCHANGED auxVars

\* time.sleep(10) and the second get_remote_size (lines 183-184)
Head2 ==
    /\ pc = "head2"
    /\ net' = net \o <<"sleep10", "HEAD">>
    /\ \/ \E s \in Sizes \cup {NoSize} :
            /\ second_size' = s
            /\ UNCHANGED <<first_size, probe_failed>>
       \/ /\ first_size' = SizeAfterProbeError(first_size)
          /\ second_size' = NoSize
          /\ probe_failed' = TRUE
    /\ pc' = "decide"
    /\ UNCHANGED <<cfgVars, fsVars, callVars, recording, group_name,
                   content_length, results, syncVars>>
    /\ UNCHANGED auxVars

\* line 190: both probes answered and the sizes differ
IsStillChanging(first, second) ==
    first # NoSize /\ second # NoSize /\ first # second

\* the comparison of line 199 inverted
IsUpToDate_Inverted(local_size, first) ==
    local_size # NoFile /\ first # NoSize /\ local_size # first

\* lines 197-199: a local file of exactly the probed size exists
IsUpToDate(local_size, first) ==
    local_size # NoFile /\ first # NoSize /\ local_size = first

\* the stability gate, the up-to-date skip and the dry-run return
\* (lines 190-207)
Decide ==
    /\ pc = "decide"
    /\ IF IsStillChanging(first_size, second_size)
         THEN Finish("not_stable")
       ELSE IF IsUpToDate(files[dest_path], first_size)
         THEN Finish("skipped")
       ELSE IF dry_run
         THEN Finish("dry_run")
       ELSE /\ pc' = "urlopen"
            /\ UNCHANGED results
    /\ UNCHANGED <<cfgVars, fsVars, callVars, net, recording, probe_failed, group_name,
                   first_size, second_size, content_length, syncVars>>
    /\ UNCHANGED auxVars

\* urlretrieve opens the URL (line 212): the body request is sent
UrlOpen ==
    /\ pc = "urlopen"
    /\ net' = Append(net, "GET")
    /\ \/ \E cl \in Sizes \cup {NoSize} :
            /\ content_length' = cl
            /\ pc' = "open"
            /\ UNCHANGED results
       \/ \* URLError (220-223) or RemoteDisconnected (227-230)
          /\ Finish("failed")
          /\ UNCHANGED content_length
       \/ \* socket.timeout is re-raised as UserWarning (224-226)
          /\ Finish("UserWarning")
          /\ UNCHANGED content_length
    /\ UNCHANGED <<cfgVars, fsVars, callVars, recording, probe_failed, group_name,
                   first_size, second_size, syncVars>>
    /\ UNCHANGED auxVars

\* urlretrieve opens dest_path itself for writing, truncating it
OpenFile ==
    /\ pc = "open"
    /\ IF ParentKind(dest_path) = "dir"
          \/ (ParentKind(dest_path) = "readonly" /\ files[dest_path] # NoFile)
         THEN /\ files' = [files EXCEPT ![dest_path] = 0]
              /\ pc' = "read"
              /\ UNCHANGED results
         ELSE /\ Finish("OSError")
              /\ UNCHANGED files
    /\ UNCHANGED <<cfgVars, dstKind, grpKind, gpx, callVars, net, recording, probe_failed,
                   group_name, first_size, second_size, content_length,
                   syncVars>>
    /\ UNCHANGED auxVars

\* one block of the body is read and written to dest_path
ReadBlock ==
    /\ pc = "read"
    /\ files[dest_path] < (IF content_length = NoSize THEN MaxSize ELSE content_length)
    /\ files' = [files EXCEPT ![dest_path] = NextSize(files[dest_path])]
    /\ UNCHANGED <<cfgVars, pc, dstKind, grpKind, gpx, callVars, net, dfVars, syncVars>>
    /\ UNCHANGED auxVars

\* the body ends: urlretrieve raises ContentTooShortError (a URLError) when
\* fewer bytes than Content-Length arrived, else download_file returns True
EndOfBody ==
    /\ pc = "read"
    /\ IF content_length # NoSize /\ files[dest_path] < content_length
         THEN Finish("failed")
         ELSE Finish("downloaded")
    /\ UNCHANGED <<cfgVars, fsVars, callVars, net, recording, probe_failed, group_name,
                   first_size, second_size, content_length, syncVars>>
    /\ UNCHANGED auxVars

\* the transfer breaks while reading: socket.timeout becomes UserWarning,
\* a connection reset is an OSError that none of the except clauses names
ReadFails ==
    /\ pc = "read"
    /\ \/ Finish("UserWarning")
       \/ Finish("ConnectionResetError")
    /\ UNCHANGED <<cfgVars, fsVars, callVars, net, recording, probe_failed, group_name,
                   first_size, second_size, content_length, syncVars>>
    /\ UNCHANGED auxVars

(* ------------------------ prepare_destination ------------------------- *)
\* glob of get_downloaded_recordings (lines 235-239): recordings found in
\* the destination, in the group directories the grouping's glob matches
GlobbedPaths ==
    { p \in Paths : IsDir(dstKind) /\ GroupGlobMatches(p[1], grouping) }

get_downloaded_recordings ==
    { <<p[2], FileNameDate(p[2])>> : p \in { q \in GlobbedPaths : files[q] # NoFile } }

\* get_outdated_recordings (lines 253-264)
get_outdated_recordings ==
    IF cutoff_date = NoCutoff THEN {}
    ELSE { dr[1] : dr \in { x \in get_downloaded_recordings : TupleLess(x[2], cutoff_date) } }

\* os.remove(path) raises OSError, which is logged, when the directory
\* holding the file is not writable (lines 291-295)
RemoveSucceeds(p) == ParentKind(p) = "dir"

\* prepare_destination (lines 266-297): "<stem>.*" matches the recording
\* and its .gpx sidecar in every globbed group directory
\* the dry-run test of line 273 left out
RemovesOutdated_IgnoresDryRun(cutoff, dry) == cutoff # NoCutoff

\* lines 269-275: removal happens with a cutoff set and dry-run off
RemovesOutdated(cutoff, dry) == cutoff # NoCutoff /\ ~dry

prepare_destination ==
    /\ pc = "prepare"
    /\ IF RemovesOutdated(cutoff_date, dry_run)
         THEN LET doomed == { p \in GlobbedPaths :
                                p[2] \in get_outdated_recordings /\ RemoveSucceeds(p) }
              IN /\ files' = [p \in Paths |-> IF p \in doomed THEN NoFile ELSE files[p]]
                 /\ gpx' = gpx \ doomed
         ELSE UNCHANGED <<files, gpx>>
    /\ pc' = "fetch"
    /\ UNCHANGED <<cfgVars, dstKind, grpKind, callVars, net, dfVars, syncVars>>
    /\ UNCHANGED auxVars

(* ----------------------- get_dashcam_filenames ------------------------ *)
\* the ways the catalog request can fail, and the exception that leaves
\* get_dashcam_filenames for each (lines 114-149): a File element without
\* a required child makes find() return None (AttributeError on .text), a
\* non-integer field makes int() raise ValueError; neither is caught
CatalogFailures ==
    {"URLError", "timeout", "RemoteDisconnected", "status", "ParseError",
     "missing_child", "bad_int"}

get_dashcam_filenames_raises(failure) ==
    IF failure \in {"URLError", "status", "ParseError"} THEN "RuntimeError"
    ELSE IF failure \in {"timeout", "RemoteDisconnected"} THEN "UserWarning"
    ELSE IF failure = "missing_child" THEN "AttributeError"
    ELSE "ValueError"

\* catalog responses: up to MaxCatalog distinct recordings in device order
RECURSIVE SeqsUpTo(_, _)
SeqsUpTo(S, n) ==
    IF n = 0 THEN {<<>>}
    ELSE LET shorter == SeqsUpTo(S, n - 1)
         IN shorter \cup { Append(q, x) : q \in shorter, x \in S }

IsInjective(q) == \A i, j \in 1..Len(q) : q[i] = q[j] => i = j
Catalogs == { q \in SeqsUpTo(Universe, MaxCatalog) : IsInjective(q) }

(* -------------------------------- sync -------------------------------- *)
\* list.sort(key=datetime, reverse=...) is stable (line 311)
\* the priority is not looked at
Before_IgnoresReverse(a, b, reverse) == TupleLess(a.datetime, b.datetime)

Before(a, b, reverse) ==
    IF reverse THEN TupleLess(b.datetime, a.datetime)
    ELSE TupleLess(a.datetime, b.datetime)

RECURSIVE InsertSorted(_, _, _)
InsertSorted(r, sorted, reverse) ==
    IF sorted = <<>> THEN <<r>>
    ELSE IF Before(r, Head(sorted), reverse) THEN <<r>> \o sorted
    ELSE <<Head(sorted)>> \o InsertSorted(r, Tail(sorted), reverse)

RECURSIVE SortRecordings(_, _)
SortRecordings(q, reverse) ==
    IF q = <<>> THEN <<>>
    ELSE InsertSorted(q[Len(q)], SortRecordings(SubSeq(q, 1, Len(q) - 1), reverse), reverse)

\* the filter of lines 313-315
ApplyFilter(q, filter) ==
    LET Keep(r) == \E f \in filter : TokenInFilename(f, r.filename)
    IN IF filter = NoFilter THEN q ELSE SelectSeq(q, Keep)

\* sync returns or raises; exit(run()) turns the result into the process
\* exit status (lines 661-667), an uncaught exception exits with status 1
SyncEnds(result) ==
    /\ sync_result' = result
    /\ exit_status' = IF entry # "run" THEN exit_status
                      ELSE IF result = "True" THEN 0 ELSE 1
    /\ pc' = "done"

\* run() (lines 632-664): copies args.dry_run into the global, leaves
\* cutoff_date as it is, and calls sync
run ==
    /\ entry = "run"
    /\ pc = "idle"
    /\ sync_result = "none"
    /\ fs0' = FileSystem
    /\ net0' = Len(net)
    /\ pc' = "prepare"
    /\ UNCHANGED <<cfgVars, fsVars, net, dfVars, syncVars>>
    /\ UNCHANGED auxVars

\* sync(address, destination, grouping, download_priority,
\* recording_filter, args) called with the module globals as set
SyncCall ==
    /\ entry = "sync"
    /\ pc = "idle"
    /\ sync_result = "none"
    /\ fs0' = FileSystem
    /\ net0' = Len(net)
    /\ pc' = "prepare"
    /\ UNCHANGED <<cfgVars, fsVars, net, dfVars, syncVars>>
    /\ UNCHANGED auxVars

\* lines 304-316: the catalog request, then sort and filter
get_dashcam_filenames ==
    /\ pc = "fetch"
    /\ net' = Append(net, "LIST")
    /\ \/ \E failure \in CatalogFailures :
            LET exc == get_dashcam_filenames_raises(failure) IN
            /\ catalog_error' = failure
            /\ IF exc \in {"RuntimeError", "UserWarning"}
                 THEN SyncEnds("False")
                 ELSE SyncEnds(exc)
            /\ UNCHANGED <<listed, dashcam_recordings, idx>>
       \/ \E catalog \in Catalogs :
            /\ listed' = catalog
            /\ dashcam_recordings' =
                  ApplyFilter(SortRecordings(catalog, download_priority = "rdate"),
                              recording_filter)
            /\ idx' = 1
            /\ pc' = "loop"
            /\ UNCHANGED <<catalog_error, sync_result, exit_status>>
    /\ UNCHANGED <<cfgVars, fsVars, callVars, dfVars>>
    /\ UNCHANGED auxVars

\* lines 319-321: a recording older than the cutoff is skipped
SyncSkipsOutdated ==
    /\ pc = "loop"
    /\ idx <= Len(dashcam_recordings)
    /\ cutoff_date # NoCutoff
    /\ TupleLess(DateOf(dashcam_recordings[idx].datetime), cutoff_date)
    /\ idx' = idx + 1
    /\ UNCHANGED <<cfgVars, pc, fsVars, callVars, net, dfVars, listed, dashcam_recordings,
                   catalog_error, sync_result, exit_status>>
    /\ UNCHANGED auxVars

\* lines 322-323: download_file is defined with six positional parameters
\* and no defaults (line 165) and is called here with four, so binding the
\* arguments raises TypeError before the body of download_file runs; sync
\* has no handler around the call
SyncCallsDownloadFile ==
    /\ pc = "loop"
    /\ idx <= Len(dashcam_recordings)
    /\ ~(cutoff_date # NoCutoff
          /\ TupleLess(DateOf(dashcam_recordings[idx].datetime), cutoff_date))
    /\ recording' = dashcam_recordings[idx]
    /\ group_name' = get_group_name(dashcam_recordings[idx].datetime, grouping)
    /\ SyncEnds("TypeError")
    /\ UNCHANGED <<cfgVars, fsVars, callVars, net, first_size, second_size, probe_failed,
                   content_length, results, listed, dashcam_recordings, idx,
                   catalog_error>>
    /\ UNCHANGED auxVars

\* lines 328-329: the loop is exhausted
SyncCompletes ==
    /\ pc = "loop"
    /\ idx > Len(dashcam_recordings)
    /\ SyncEnds("True")
    /\ UNCHANGED <<cfgVars, fsVars, callVars, net, dfVars, listed, dashcam_recordings, idx,
                   catalog_error>>
    /\ UNCHANGED auxVars

(* ------------------- functions called on their own -------------------- *)
\* minutes taken as hundredths of a degree
fix_coordinates_MinutesAsCents(hemisphere, coordinate) ==
    LET minutes == coordinate % 10000
        degrees == coordinate - minutes
        value   == (degrees \div 10000) * 6000 + (minutes * 60) \div 100
    IN  IF hemisphere \in {"S", "W"} THEN 0 - value ELSE value

\* fix_coordinates (lines 395-399). Coordinates are counted in hundredths,
\* so the float 100.0 is 10000; the result is counted in 1/6000 of a degree,
\* which keeps degrees / 100.0 and minutes / 60.0 exact
fix_coordinates(hemisphere, coordinate) ==
    LET minutes == coordinate % 10000
        degrees == coordinate - minutes
        value   == (degrees \div 10000) * 6000 + minutes
    IN  IF hemisphere \in {"S", "W"} THEN 0 - value ELSE value

\* get_gps_data (lines 439-444): the two hemisphere bytes and the two raw
\* floats of one payload become the two decoded coordinates
get_gps_data_Loc(payload) ==
    [ Lat |-> fix_coordinates(payload.lat_hemi, payload.lat_raw),
      Lon |-> fix_coordinates(payload.lon_hemi, payload.lon_raw) ]

Hemispheres == {"N", "S", "E", "W"}
\* raw DDMM.mmmm values in hundredths: 0.0, 0.01, 3725.0, 3759.99,
\* 12200.5 and 17959.99
RawCoordinates == {0, 1, 372500, 375999, 1220050, 1795999}

\* timestamps get_group_name is called with: every day of June 2024 and the
\* days around a month end, a leap day and two year ends
GroupDays ==
    { <<2024, 6, d>> : d \in 1..30 }
      \cup { <<2023, 12, 31>>, <<2024, 1, 1>>, <<2024, 2, 29>>, <<2024, 3, 1>>,
             <<2024, 5, 31>>, <<2024, 7, 1>>, <<2024, 12, 31>>, <<2025, 1, 1>> }
GroupTimes == { <<0, 0, 0>>, <<12, 0, 0>>, <<23, 59, 59>> }

get_group_name_call ==
    /\ entry = "get_group_name"
    /\ pc = "idle"
    /\ ret' = << get_group_name(arg.recording_datetime, arg.grouping) >>
    /\ pc' = "done"
    /\ UNCHANGED <<cfgVars, fsVars, callVars, net, dfVars, syncVars, mVars, xVars, arg>>

get_gps_data_call ==
    /\ entry = "get_gps_data"
    /\ pc = "idle"
    /\ ret' = << get_gps_data_Loc(arg) >>
    /\ pc' = "done"
    /\ UNCHANGED <<cfgVars, fsVars, callVars, net, dfVars, syncVars, mVars, xVars, arg>>

(* -------------------------- extract_gps_data -------------------------- *)
\* A file is a sequence of 4-byte words, each held as the integer its
\* reader decodes; positions and sizes are in bytes and multiples of 4.
\* The four-character codes are the big-endian values of their bytes.
TagMoov == 1836019574
TagGps == 1735422752
TagFree == 1718773093
MagicGPS == 1196446496
TagFtyp == 1718909296
TagMdat == 1835295092
TagUdta == 1969517665
\* the bytes 00 FF 00 00, which are not UTF-8
GarbageTag == 16711680
\* the empty type get_atom_info returns with size 0
NoTag == 0

\* f.read(n) at position p: what is left of the file from p, at most n bytes
Read(f, p, n) ==
    LET first == p \div 4 + 1
        last  == IF (p + n) \div 4 < Len(f) THEN (p + n) \div 4 ELSE Len(f)
    IN  SubSeq(f, first, last)

WordBytes(w) == << w \div 16777216, (w \div 65536) % 256, (w \div 256) % 256, w % 256 >>

\* bytes.decode() of a word; every code of the files is ASCII, a byte
\* above 127 is one that is no UTF-8
Decodable(w) == \A i \in 1..4 : WordBytes(w)[i] < 128

\* get_atom_info (lines 404-409)
get_atom_info(eight_bytes) ==
    IF Len(eight_bytes) < 2 \/ ~Decodable(eight_bytes[2])
      THEN <<0, NoTag>>
      ELSE <<eight_bytes[1], eight_bytes[2]>>

Chr(b) ==
    CASE b = 78 -> "N" [] b = 83 -> "S" [] b = 69 -> "E" [] b = 87 -> "W"
      [] OTHER -> "?"

\* a function of the extractor returns a value or raises
Value(v) == [raises |-> "none", value |-> <<v>>]
None == [raises |-> "none", value |-> <<>>]
Raises(e) == [raises |-> e, value |-> <<>>]

\* get_gps_data (lines 415-448) on the payload after the 12-byte header:
\* six integers, the bytes active, lat_hemi, lon_hemi, four floats.
\* Speed is in 1/1000000 after fix_speed.
get_gps_data(data) ==
    IF Len(data) < 11 THEN Raises("struct.error")
    ELSE LET hemi == WordBytes(data[7]) IN
         IF hemi[2] > 127 \/ hemi[3] > 127 THEN Raises("UnicodeDecodeError")
         ELSE LET loc == get_gps_data_Loc([lat_hemi |-> Chr(hemi[2]),
                                           lon_hemi |-> Chr(hemi[3]),
                                           lat_raw |-> data[8],
                                           lon_raw |-> data[9]])
              IN Value([ DT      |-> <<data[4] + 2000, data[5], data[6],
                                       data[1], data[2], data[3]>>,
                         Lat     |-> loc.Lat,
                         Lon     |-> loc.Lon,
                         Speed   |-> data[10] * 514444,
                         Bearing |-> data[11] ])

\* get_gps_atom (lines 450-472): struct.unpack_from of the header stands
\* before the try
get_gps_atom(atom_pos, req_size, f) ==
    LET data == Read(f, atom_pos, req_size) IN
    IF Len(data) < 3 THEN Raises("struct.error")
    ELSE IF ~Decodable(data[2]) \/ ~Decodable(data[3]) THEN None
    ELSE IF req_size # data[1] \/ data[2] # TagFree \/ data[3] # MagicGPS THEN None
    ELSE get_gps_data(SubSeq(data, 4, Len(data)))

\* one trkpt element (lines 516-519)
TrackPoint(gps) ==
    [lat |-> gps.Lat, lon |-> gps.Lon, time |-> gps.DT,
     speed |-> gps.Speed, course |-> gps.Bearing]

\* the points are laid out last to first
generate_gpx_Reversed(data) ==
    << << [i \in 1..Len(data) |-> TrackPoint(data[Len(data) + 1 - i])] >> >>

\* generate_gpx (lines 506-523): a document is a sequence of tracks, a
\* track a sequence of segments, a segment a sequence of points
generate_gpx(data) == << << [i \in 1..Len(data) |-> TrackPoint(data[i])] >> >>

(* the files given to the extractor *)
ChunkSize == 56
\* the payload of the chunk of table entry k: 12:00:0k on 2024-06-15,
\* active, N, W, 3725.0, 12200.5, speed 10, bearing 90
Payload(k) == <<12, 0, k, 24, 6, 15, 65 * 16777216 + 78 * 65536 + 87 * 256,
                372500, 1220050, 10, 90>>

EntryFaults == {"ok", "bad_size", "bad_tag", "bad_magic", "garbage", "short", "zero"}
Structures == {"normal", "zero_top", "zero_child", "truncated"}

Chunk(fault, k) ==
    << IF fault = "bad_size" THEN ChunkSize - 4 ELSE ChunkSize,
       CASE fault = "bad_tag" -> TagUdta [] fault = "garbage" -> GarbageTag
         [] OTHER -> TagFree,
       IF fault = "bad_magic" THEN TagFree ELSE MagicGPS >> \o Payload(k)

RECURSIVE Concat(_)
Concat(qs) == IF qs = <<>> THEN <<>> ELSE Head(qs) \o Concat(Tail(qs))

\* ftyp, mdat holding one chunk per table entry, moov holding the gps box;
\* "zero_top" gives the first box size 0, "zero_child" puts a child of
\* size 0 before the gps box, "truncated" ends the file before the end
\* moov declares
Mp4File(structure, entries) ==
    LET n == Len(entries)
        ChunkPos(k) == 16 + ChunkSize * (k - 1)
        TableEntry(k) ==
            CASE entries[k] = "zero"  -> <<0, 0>>
              [] entries[k] = "short" -> <<ChunkPos(k), 8>>
              [] OTHER                -> <<ChunkPos(k), ChunkSize>>
        gpsBox == <<16 + 8 * n, TagGps, 0, n>>
                    \o Concat([k \in 1..n |-> TableEntry(k)])
        children == IF structure = "zero_child"
                      THEN <<0, TagUdta>> \o gpsBox ELSE gpsBox
        lost == IF structure = "truncated" THEN 16 ELSE 0
    IN  << IF structure = "zero_top" THEN 0 ELSE 8, TagFtyp >>
          \o << 8 + ChunkSize * n, TagMdat >>
          \o Concat([k \in 1..n |-> Chunk(entries[k], k)])
          \o << 8 + 4 * Len(children) + lost, TagMoov >> \o children

Layouts ==
    { [structure |-> "normal", entries |-> e] : e \in SeqsUpTo(EntryFaults, MaxEntries) }
      \cup { [structure |-> st, entries |-> <<"ok">>] : st \in Structures }

\* the file the extractor is pointed at: dest_path of the quiet entries
file_path == get_filepath(NoGroup, RecA.filename)

XEnds(outcome) ==
    /\ x_result' = outcome
    /\ pc' = "done"

\* extract_gps_data, lines 526-530: open(file_path, "rb")
extract_gps_data ==
    /\ entry = "extract_gps_data"
    /\ pc = "idle"
    /\ x_result = "none"
    /\ IF files[file_path] = NoFile
         THEN XEnds("FileNotFoundError")
         ELSE pc' = "x_top" /\ UNCHANGED x_result
    /\ UNCHANGED <<cfgVars, fsVars, callVars, net, dfVars, syncVars, mVars, pVars,
                   mp4, in_fh, pos, offset, atom_size, sub_offset, sub_atom_size,
                   gps_offset, gps_data, header_reads, last_read, gpx_content,
                   gpx_file>>

\* parse_moov, lines 477-484 and 502-503: one turn of the outer loop up to
\* the inner loop
ReadTopHeader ==
    /\ pc = "x_top"
    /\ header_reads < MaxHeaderReads
    /\ header_reads' = header_reads + 1
    /\ last_read' = pos
    /\ LET info == get_atom_info(Read(in_fh, pos, 8)) IN
       /\ atom_size' = info[1]
       /\ IF info[1] = 0
            THEN /\ pc' = "x_write"
                 /\ pos' = pos + 4 * Len(Read(in_fh, pos, 8))
                 /\ UNCHANGED <<offset, sub_offset>>
            ELSE IF info[2] = TagMoov
            THEN /\ sub_offset' = offset + 8
                 /\ pos' = pos + 8
                 /\ pc' = "x_sub"
                 /\ UNCHANGED offset
            ELSE /\ offset' = offset + info[1]
                 /\ pos' = offset + info[1]
                 /\ UNCHANGED <<pc, sub_offset>>
    /\ UNCHANGED <<cfgVars, fsVars, callVars, net, dfVars, syncVars, mVars, pVars,
                   mp4, in_fh, sub_atom_size, gps_offset, gps_data, gpx_content,
                   gpx_file, x_result>>

\* lines 485 and 502-503: the children of moov are exhausted
LeaveMoov ==
    /\ pc = "x_sub"
    /\ ~(sub_offset < offset + atom_size)
    /\ offset' = offset + atom_size
    /\ pos' = offset + atom_size
    /\ pc' = "x_top"
    /\ UNCHANGED <<cfgVars, fsVars, callVars, net, dfVars, syncVars, mVars, pVars,
                   mp4, in_fh, atom_size, sub_offset, sub_atom_size, gps_offset,
                   gps_data, header_reads, last_read, gpx_content, gpx_file,
                   x_result>>

\* lines 485-491 and 499-500: one child header; the size read is added to
\* sub_offset whatever it is
ReadSubHeader ==
    /\ pc = "x_sub"
    /\ sub_offset < offset + atom_size
    /\ header_reads < MaxHeaderReads
    /\ header_reads' = header_reads + 1
    /\ last_read' = pos
    /\ LET info == get_atom_info(Read(in_fh, pos, 8)) IN
       /\ sub_atom_size' = info[1]
       /\ IF info[2] = TagGps
            THEN /\ gps_offset' = 16 + sub_offset
                 /\ pos' = 16 + sub_offset
                 /\ pc' = "x_gps"
                 /\ UNCHANGED sub_offset
            ELSE /\ sub_offset' = sub_offset + info[1]
                 /\ pos' = sub_offset + info[1]
                 /\ UNCHANGED <<pc, gps_offset>>
    /\ UNCHANGED <<cfgVars, fsVars, callVars, net, dfVars, syncVars, mVars, pVars,
                   mp4, in_fh, offset, atom_size, gps_data, gpx_content, gpx_file,
                   x_result>>

\* lines 492-497: one entry of the table; get_gps_atom_info (lines 411-413)
\* raises struct.error on fewer than 8 bytes
ReadGpsEntry ==
    /\ pc = "x_gps"
    /\ gps_offset < sub_offset + sub_atom_size
    /\ LET eight_bytes == Read(in_fh, pos, 8)
           data == IF Len(eight_bytes) < 2 THEN Raises("struct.error")
                   ELSE get_gps_atom(eight_bytes[1], eight_bytes[2], in_fh)
       IN  IF data.raises # "none"
             THEN /\ XEnds(data.raises)
                  /\ UNCHANGED <<gps_data, gps_offset, pos>>
             ELSE /\ gps_data' = gps_data \o data.value
                  /\ gps_offset' = gps_offset + 8
                  /\ pos' = gps_offset + 8
                  /\ UNCHANGED <<pc, x_result>>
    /\ UNCHANGED <<cfgVars, fsVars, callVars, net, dfVars, syncVars, mVars, pVars,
                   mp4, in_fh, offset, atom_size, sub_offset, sub_atom_size,
                   header_reads, last_read, gpx_content, gpx_file>>

\* lines 492 and 499-500: the table is exhausted
LeaveGpsTable ==
    /\ pc = "x_gps"
    /\ ~(gps_offset < sub_offset + sub_atom_size)
    /\ sub_offset' = sub_offset + sub_atom_size
    /\ pos' = sub_offset + sub_atom_size
    /\ pc' = "x_sub"
    /\ UNCHANGED <<cfgVars, fsVars, callVars, net, dfVars, syncVars, mVars, pVars,
                   mp4, in_fh, offset, atom_size, sub_atom_size, gps_offset,
                   gps_data, header_reads, last_read, gpx_content, gpx_file,
                   x_result>>

\* extract_gps_data, lines 534-536 and 540-541: the document is built, or
\* the warning is logged
GenerateGpx ==
    /\ pc = "x_write"
    /\ IF gps_data # <<>>
         THEN /\ gpx_content' = << generate_gpx(gps_data) >>
              /\ pc' = "x_open"
              /\ UNCHANGED x_result
         ELSE /\ XEnds("no_data")
              /\ UNCHANGED gpx_content
    /\ UNCHANGED <<cfgVars, fsVars, callVars, net, dfVars, syncVars, mVars, pVars,
                   mp4, in_fh, pos, offset, atom_size, sub_offset, sub_atom_size,
                   gps_offset, gps_data, header_reads, last_read, gpx_file>>

\* lines 537-539: the document is written next to the recording
WriteGpxFile ==
    /\ pc = "x_open"
    /\ gpx_file' = gpx_content
    /\ gpx' = gpx \cup {file_path}
    /\ XEnds("written")
    /\ UNCHANGED <<cfgVars, dstKind, grpKind, files, callVars, net, dfVars, syncVars,
                   mVars, pVars, mp4, in_fh, pos, offset, atom_size, sub_offset,
                   sub_atom_size, gps_offset, gps_data, header_reads, last_read,
                   gpx_content>>

(* ---------------------------- monitor_loop ---------------------------- *)
\* the loop goes back to "while True" after time.sleep(30)
NextCycle ==
    /\ net' = net \o <<"sleep30">>
    /\ cycle' = cycle + 1
    /\ pc' = "m_avail"

\* run() with args.monitor (lines 654-658): monitor_loop starts with an
\* empty last_sizes (line 582)
run_monitor ==
    /\ entry = "monitor"
    /\ pc = "idle"
    /\ monitor_result = "none"
    /\ cycle = 1
    /\ last_sizes' = [fn \in FileNames |-> NoSize]
    /\ fs0' = FileSystem
    /\ net0' = Len(net)
    /\ pc' = "m_avail"
    /\ UNCHANGED <<cfgVars, fsVars, net, dfVars, syncVars, to_download, cycle,
                   monitor_result, xpVars>>

\* step 1 (lines 585-592): HEAD on the list endpoint
MonitorAvailability ==
    /\ pc = "m_avail"
    /\ cycle <= MaxCycles
    /\ \/ /\ net' = Append(net, "HEADLIST")
          /\ pc' = "m_list"
          /\ UNCHANGED cycle
       \/ /\ net' = net \o <<"HEADLIST", "sleep30">>
          /\ cycle' = cycle + 1
          /\ UNCHANGED pc
    /\ UNCHANGED <<cfgVars, fsVars, callVars, dfVars, syncVars, last_sizes,
                   to_download, monitor_result, xpVars>>

\* step 2 (lines 594-602): the catalog request; every exception of
\* get_dashcam_filenames is caught here
MonitorList ==
    /\ pc = "m_list"
    /\ \/ \E failure \in CatalogFailures :
            /\ catalog_error' = failure
            /\ net' = net \o <<"LIST", "sleep30">>
            /\ cycle' = cycle + 1
            /\ pc' = "m_avail"
            /\ UNCHANGED <<listed, dashcam_recordings, idx, to_download>>
       \/ \E catalog \in Catalogs :
            /\ catalog_error' = "none"
            /\ net' = Append(net, "LIST")
            /\ listed' = catalog
            /\ dashcam_recordings' = catalog
            /\ idx' = 1
            /\ to_download' = <<>>
            /\ pc' = "m_probe"
            /\ UNCHANGED cycle
    /\ UNCHANGED <<cfgVars, fsVars, callVars, dfVars, sync_result, exit_status,
                   last_sizes, monitor_result, xpVars>>

\* step 3 (lines 604-617) for one recording: a HEAD request; a missing
\* Content-Length reads as 0; any exception skips the recording
MonitorProbe ==
    /\ pc = "m_probe"
    /\ idx <= Len(dashcam_recordings)
    /\ net' = Append(net, "HEAD")
    /\ idx' = idx + 1
    /\ LET rec == dashcam_recordings[idx] IN
       \/ \E remote_size \in Sizes \cup {0} :
            LET prev == last_sizes[rec.filename] IN
            IF prev = NoSize \/ prev # remote_size
              THEN /\ last_sizes' = [last_sizes EXCEPT ![rec.filename] = remote_size]
                   /\ to_download' = Append(to_download, rec)
              ELSE UNCHANGED <<last_sizes, to_download>>
       \/ UNCHANGED <<last_sizes, to_download>>
    /\ UNCHANGED <<cfgVars, pc, fsVars, callVars, dfVars, listed, dashcam_recordings,
                   catalog_error, sync_result, exit_status, cycle,
                   monitor_result, xpVars>>

\* step 4 (lines 620-624): the first changed recording is handed to
\* download_file with four of its six positional arguments; the TypeError
\* leaves monitor_loop and run(), and the process exits with status 1
MonitorCallsDownloadFile ==
    /\ pc = "m_probe"
    /\ idx > Len(dashcam_recordings)
    /\ to_download # <<>>
    /\ recording' = to_download[1]
    /\ group_name' = get_group_name(to_download[1].datetime, grouping)
    /\ monitor_result' = "TypeError"
    /\ exit_status' = 1
    /\ pc' = "done"
    /\ UNCHANGED <<cfgVars, fsVars, callVars, net, first_size, second_size,
                   probe_failed, content_length, results, listed, dashcam_recordings,
                   idx, catalog_error, sync_result, last_sizes, to_download,
                   cycle, xpVars>>

\* lines 627-630: nothing changed, sleep and poll again
MonitorNoChanges ==
    /\ pc = "m_probe"
    /\ idx > Len(dashcam_recordings)
    /\ to_download = <<>>
    /\ NextCycle
    /\ UNCHANGED <<cfgVars, fsVars, callVars, dfVars, syncVars, last_sizes,
                   to_download, monitor_result, xpVars>>

(* ------------------------- initial states ----------------------------- *)
CutoffDates == {<<2024, 6, 1>>, <<2024, 6, 2>>}

\* a caller about to invoke download_file for one recording: the
\* destination and the group directory are in any state, and a local file
\* of any size may exist where its directory exists
InitDownloadFile ==
    /\ entry = "download_file"
    /\ dry_run \in BOOLEAN
    /\ cutoff_date = NoCutoff
    /\ grouping \in Groupings
    /\ download_priority = "date"
    /\ recording_filter = NoFilter
    /\ recording = RecA
    /\ dstKind \in DirKinds
    /\ LET g == get_group_name(recording.datetime, grouping)
           p == get_filepath(g, recording.filename)
       IN /\ \E k \in DirKinds :
               /\ IsDir(dstKind) \/ k = "absent"
               /\ grpKind = [l \in GroupLabels \ {NoGroup} |-> IF l = g THEN k ELSE "absent"]
          /\ \E sz \in Sizes \cup {NoFile} :
               /\ sz = NoFile \/ IsDir(IF g = NoGroup THEN dstKind ELSE grpKind[g])
               /\ files = [q \in Paths |-> IF q = p THEN sz ELSE NoFile]
    /\ gpx = {}

\* sync() called as a function with the module globals set by the caller,
\* or through run(), which never assigns cutoff_date; earlier cycles may
\* have left recordings, with or without sidecar, in their group directory
LocalRecordings == {RecB, RecC}

InitSync ==
    /\ entry \in {"sync", "run"}
    /\ dry_run \in BOOLEAN
    /\ cutoff_date \in {NoCutoff} \cup CutoffDates
    /\ entry = "run" => cutoff_date = NoCutoff
    /\ grouping \in Groupings
    /\ download_priority \in {"date", "rdate"}
    /\ recording_filter \in {NoFilter, {"F"}}
    /\ recording = RecA
    /\ dstKind \in DirKinds
    /\ \E present \in SUBSET LocalRecordings :
         LET at(r) == get_filepath(get_group_name(r.datetime, grouping), r.filename)
             held == { at(r) : r \in present }
         IN /\ present = {} \/ IsDir(dstKind)
            /\ files = [q \in Paths |-> IF q \in held THEN 1000 ELSE NoFile]
            /\ gpx \in SUBSET held
            /\ grpKind = [l \in GroupLabels \ {NoGroup} |->
                            IF \E q \in held : q[1] = l THEN "dir" ELSE "absent"]

\* run() in monitor mode; nothing has been downloaded yet
InitMonitor ==
    /\ entry = "monitor"
    /\ dry_run \in BOOLEAN
    /\ cutoff_date = NoCutoff
    /\ grouping \in {"none", "weekly"}
    /\ download_priority = "date"
    /\ recording_filter = NoFilter
    /\ recording = RecA
    /\ dstKind \in {"dir", "file"}
    /\ grpKind = [l \in GroupLabels \ {NoGroup} |-> "absent"]
    /\ files = NoFiles
    /\ gpx = {}

\* the part of Init shared by the entries that touch neither the device
\* nor the destination
InitQuiet ==
    /\ dry_run = FALSE
    /\ cutoff_date = NoCutoff
    /\ grouping = "none"
    /\ download_priority = "date"
    /\ recording_filter = NoFilter
    /\ recording = RecA
    /\ dstKind = "dir"
    /\ grpKind = [l \in GroupLabels \ {NoGroup} |-> "absent"]
    /\ files = NoFiles
    /\ gpx = {}

InitGetGroupName ==
    /\ entry = "get_group_name"
    /\ InitQuiet
    /\ arg \in [ recording_datetime : { d \o t : d \in GroupDays, t \in GroupTimes },
                 grouping : Groupings ]

InitGetGpsData ==
    /\ entry = "get_gps_data"
    /\ InitQuiet
    /\ arg \in [ lat_hemi : Hemispheres, lon_hemi : Hemispheres,
                 lat_raw : RawCoordinates, lon_raw : RawCoordinates ]

\* extract_gps_data called on a path that holds one of the files, or nothing
InitExtract ==
    /\ entry = "extract_gps_data"
    /\ dry_run = FALSE
    /\ cutoff_date = NoCutoff
    /\ grouping = "none"
    /\ download_priority = "date"
    /\ recording_filter = NoFilter
    /\ recording = RecA
    /\ dstKind = "dir"
    /\ grpKind = [l \in GroupLabels \ {NoGroup} |-> "absent"]
    /\ gpx = {}
    /\ mp4 \in Layouts
    /\ in_fh = Mp4File(mp4.structure, mp4.entries)
    /\ \/ files = [NoFiles EXCEPT ![file_path] = 1000]
       \/ files = NoFiles /\ mp4 = [structure |-> "normal", entries |-> <<>>]

NoLayout == [structure |-> "normal", entries |-> <<>>]

Init ==
    /\ \/ /\ InitDownloadFile \/ InitSync \/ InitMonitor
          /\ arg = <<>>
          /\ mp4 = NoLayout /\ in_fh = <<>>
       \/ /\ InitGetGroupName \/ InitGetGpsData
          /\ mp4 = NoLayout /\ in_fh = <<>>
       \/ InitExtract /\ arg = <<>>
    /\ ret = <<>>
    /\ pos = 0
    /\ offset = 0
    /\ atom_size = 0
    /\ sub_offset = 0
    /\ sub_atom_size = 0
    /\ gps_offset = 0
    /\ gps_data = <<>>
    /\ header_reads = 0
    /\ last_read = 0 - 1
    /\ gpx_content = <<>>
    /\ gpx_file = <<>>
    /\ x_result = "none"
    /\ last_sizes = [fn \in FileNames |-> NoSize]
    /\ to_download = <<>>
    /\ cycle = 1
    /\ monitor_result = "none"
    /\ pc = "idle"
    /\ fs0 = FileSystem
    /\ net0 = 0
    /\ net = <<>>
    /\ group_name = NoGroup
    /\ first_size = NoSize
    /\ second_size = NoSize
    /\ probe_failed = FALSE
    /\ content_length = NoSize
    /\ results = <<>>
    /\ listed = <<>>
    /\ dashcam_recordings = <<>>
    /\ idx = 1
    /\ catalog_error = "none"
    /\ sync_result = "none"
    /\ exit_status = NoExit

Next ==
    \/ DownloadFileCall
    \/ ensure_destination
    \/ Head1
    \/ Head2
    \/ Decide
    \/ UrlOpen
    \/ OpenFile
    \/ ReadBlock
    \/ EndOfBody
    \/ ReadFails
    \/ run
    \/ SyncCall
    \/ prepare_destination
    \/ get_dashcam_filenames
    \/ SyncSkipsOutdated
    \/ SyncCallsDownloadFile
    \/ SyncCompletes
    \/ run_monitor
    \/ MonitorAvailability
    \/ MonitorList
    \/ MonitorProbe
    \/ MonitorCallsDownloadFile
    \/ MonitorNoChanges
    \/ get_group_name_call
    \/ get_gps_data_call
    \/ extract_gps_data
    \/ ReadTopHeader
    \/ LeaveMoov
    \/ ReadSubHeader
    \/ ReadGpsEntry
    \/ LeaveGpsTable
    \/ GenerateGpx
    \/ WriteGpxFile

Spec == Init /\ [][Next]_vars

(* ---------------------- properties and witnesses ---------------------- *)
Count(q, e) == Cardinality({ i \in 1..Len(q) : q[i] = e })

\* what the current (or last) call put on the wire
CallNet == SubSeq(net, net0 + 1, Len(net))

\* a download_file call has ended and its outcome is the last one recorded
Ended(outcome) ==
    /\ entry = "download_file"
    /\ pc = "idle"
    /\ results # <<>>
    /\ results[Len(results)] = outcome

\* C1 (as claimed): during and after a download, a file whose content
\* differs from what was there before the call exists under the final
\* name only once the call has reported downloaded, and then with the
\* verified size.
C1_AtomicFinalName ==
    entry = "download_file" =>
        \A p \in Paths :
            (files[p] # NoFile /\ files[p] # fs0.files[p]) =>
                /\ Ended("downloaded")
                /\ first_size # NoSize => files[p] = first_size

\* C2 (as claimed): a download reported failed has made exactly three
\* transfer attempts.
C2_ThreeAttempts ==
    Ended("failed") => Count(CallNet, "GET") = 3

\* C3: a call whose accepted probed size equals the size of the local
\* file that existed when the call began ends as skipped, has sent no body
\* request, and has left the file system as it was; this holds for the
\* first and for the second invocation.
C3_IdempotentSkip ==
    ( /\ entry = "download_file"
      /\ pc = "idle"
      /\ results # <<>>
      /\ first_size # NoSize
      /\ ~IsStillChanging(first_size, second_size)
      /\ fs0.files[dest_path] = first_size )
    => /\ results[Len(results)] = "skipped"
       /\ Returns[results[Len(results)]] = FALSE
       /\ Count(CallNet, "GET") = 0
       /\ FileSystem = fs0

\* C3 witness: two invocations in a row both ended as skipped, only HEAD
\* requests were sent, and the local file is still the one of 1000 bytes.
C3_Witness ==
    /\ Ended("skipped")
    /\ results = <<"skipped", "skipped">>
    /\ Count(net, "HEAD") = 4
    /\ Count(net, "GET") = 0
    /\ files[dest_path] = 1000
    /\ first_size = 1000

\* C4 (as claimed): a call that reports not stable has sent no body
\* request and has left the destination tree, directories included, as it
\* was before the call.
C4_NotStableNoSideEffect ==
    Ended("not_stable") =>
        /\ Count(CallNet, "GET") = 0
        /\ FileSystem = fs0

\* C5 (as claimed): when a call outside dry-run reports downloaded and the
\* expected size is known, the local file has exactly that size.
C5_DownloadedHasExpectedSize ==
    (Ended("downloaded") /\ first_size # NoSize) =>
        files[dest_path] = first_size

\* C6 (as claimed): no failure of a transfer leaves download_file as an
\* exception, and sync does not end by an exception of the download call.
C6_FailureContained ==
    /\ \A i \in 1..Len(results) :
          results[i] \notin {"UserWarning", "ConnectionResetError"}
    /\ sync_result # "TypeError"

\* C7 (as claimed): after a catalog failure sync has returned False
\* without any probe or download and the exit status is not 0; the exit
\* status is 0 exactly when the cycle ended without a catalog failure.
C7_CatalogFailureAborts ==
    pc = "done" =>
        /\ catalog_error # "none" =>
              /\ sync_result = "False"
              /\ Count(net, "HEAD") = 0
              /\ Count(net, "GET") = 0
        /\ entry = "run" => (exit_status = 0 <=> catalog_error = "none")

\* C8 (as claimed): when the destination exists but is not a writable
\* directory, the cycle issues no network request at all.
C8_DestinationCheckedFirst ==
    (entry \in {"sync", "run"} /\ fs0.dstKind \in {"file", "readonly"}) =>
        net = <<>>

\* C9 (as claimed): a cycle over the one-recording catalog, an empty
\* destination and dry-run off ends successfully after one probe pair and
\* one body download, with the file present.
C9_EndToEnd ==
    ( /\ entry = "run"
      /\ pc = "done"
      /\ ~dry_run
      /\ recording_filter = NoFilter
      /\ catalog_error = "none"
      /\ dashcam_recordings = <<RecA>>
      /\ fs0.dstKind = "dir"
      /\ fs0.files = NoFiles )
    => /\ net = <<"LIST", "HEAD", "sleep10", "HEAD", "GET">>
       /\ files[get_filepath(get_group_name(RecA.datetime, grouping), RecA.filename)]
            = RecA.size
       /\ sync_result = "True"
       /\ exit_status = 0

\* C10: in dry-run mode no body request is ever sent, no file or sidecar
\* under the destination is created, changed or removed (by the download
\* engine or by destination preparation), and a call that passes the
\* stability gate and the up-to-date check returns True.
C10_DryRunTouchesNoFile ==
    dry_run =>
        /\ files = fs0.files
        /\ gpx = fs0.gpx
        /\ Count(net, "GET") = 0
        /\ (entry = "download_file" /\ pc = "idle" /\ results # <<>>
              /\ results[Len(results)] \notin {"RuntimeError", "OSError"}
              /\ ~IsStillChanging(first_size, second_size)
              /\ ~IsUpToDate(fs0.files[dest_path], first_size))
           => results[Len(results)] = "dry_run" /\ Returns["dry_run"]

\* C10 witness: a dry-run call returned True although a local file of a
\* different size exists.
C10_Witness ==
    /\ dry_run
    /\ Ended("dry_run")
    /\ first_size = 1000
    /\ files[dest_path] = 500

\* C10 witness of destination preparation: it ran in dry-run mode with an
\* outdated recording on disk and the cycle went on to the catalog.
C10_PrepareWitness ==
    /\ dry_run
    /\ pc = "fetch"
    /\ get_outdated_recordings # {}

\* C11: once a size probe has raised, the call holds no reference size;
\* it neither reports not stable nor skips nor raises at the gate but goes
\* on to the body request (or to the dry-run return), and a transfer that
\* then ends as failed is one that delivered fewer bytes than the body
\* response announced: every completed transfer is reported downloaded.
C11_Step ==
    /\ (pc = "decide" /\ probe_failed) =>
          /\ first_size = NoSize
          /\ second_size = NoSize
          /\ IF dry_run
               THEN pc' = "idle" /\ results' = Append(results, "dry_run")
               ELSE pc' = "urlopen" /\ results' = results
    /\ (pc = "read" /\ probe_failed /\ pc' = "idle"
          /\ results'[Len(results')] = "failed") =>
          /\ content_length # NoSize
          /\ files[dest_path] < content_length

C11_InconclusiveProbe == [][C11_Step]_vars

\* C11 witness: the second probe raised after the first had answered, a
\* local file of 1000 bytes existed, and the call still downloaded and
\* accepted a body of 500 bytes.
C11_Witness ==
    /\ Ended("downloaded")
    /\ probe_failed
    /\ Count(CallNet, "HEAD") = 2
    /\ first_size = NoSize
    /\ fs0.files[dest_path] = 1000
    /\ files[dest_path] = 500

\* C13: in polling mode with a destination that is not a usable directory,
\* no cycle ends the loop: the process never terminates.
C13_MonitorNeverEnds ==
    (entry = "monitor" /\ ~IsDir(fs0.dstKind)) => pc # "done"

\* the listed recordings a cycle does not skip: they pass the filename
\* filter and are not older than the cutoff
Eligible ==
    { r \in { listed[i] : i \in 1..Len(listed) } :
        /\ recording_filter = NoFilter
             \/ \E f \in recording_filter : TokenInFilename(f, r.filename)
        /\ ~(cutoff_date # NoCutoff /\ TupleLess(DateOf(r.datetime), cutoff_date)) }

\* C15: the list a sync cycle walks is in non-decreasing capture-time order
\* under "date" and non-increasing order under "rdate", the walk only moves
\* forward, and a recording handed to download_file is one that no other
\* eligible listed recording precedes in that order, however the device
\* ordered its list.
C15_Step ==
    LET Earlier(a, b) == TupleLess(a.datetime, b.datetime)
        \* a has to come strictly before b under the configured priority
        Precedes(a, b) == IF download_priority = "date" THEN Earlier(a, b)
                          ELSE Earlier(b, a)
    IN
    (entry \in {"sync", "run"} /\ pc = "loop") =>
        /\ \A i, j \in 1..Len(dashcam_recordings) :
              i < j => ~Precedes(dashcam_recordings[j], dashcam_recordings[i])
        /\ dashcam_recordings' = dashcam_recordings
        /\ idx' \in {idx, idx + 1}
        /\ sync_result' = "TypeError" =>
              /\ recording' = dashcam_recordings[idx]
              /\ recording' \in Eligible
              /\ \A r \in Eligible : ~Precedes(r, recording')

C15_PriorityOrdering == [][C15_Step]_vars

\* C15 witness: the device listed the older recording first and, under
\* "rdate", the newer one was handed to download_file.
C15_Witness ==
    /\ entry = "sync"
    /\ download_priority = "rdate"
    /\ listed = <<RecB, RecA>>
    /\ sync_result = "TypeError"
    /\ recording = RecA

\* C16: with a cutoff date, a recording that a cycle hands to download_file
\* is never one whose local copy destination preparation removes, that is,
\* one whose filename date is earlier than the cutoff.
C16_RetentionBoundary ==
    (entry = "sync" /\ sync_result = "TypeError" /\ cutoff_date # NoCutoff) =>
        ~TupleLess(FileNameDate(recording.filename), cutoff_date)

\* C17: the label of a timestamp is its date under daily, the date of the
\* Monday at most six days before it under weekly, its year and month under
\* monthly, its year under yearly and absent under none; 2024-06-15 gives
\* 2024-06-15, 2024-06-10, 2024-06 and 2024.
C17_GroupingDeterminism ==
    (entry = "get_group_name" /\ pc = "done") =>
        LET dt    == arg.recording_datetime
            label == ret[1]
        IN  /\ arg.grouping = "daily" => label = <<dt[1], dt[2], dt[3]>>
            /\ arg.grouping = "weekly" =>
                  /\ Len(label) = 3
                  /\ ToOrdinal(label) % 7 = 1
                  /\ ToOrdinal(DateOf(dt)) - ToOrdinal(label) \in 0..6
                  /\ label[3] \in 1..DaysInMonth(label[1], label[2])
            /\ arg.grouping = "monthly" => label = <<dt[1], dt[2]>>
            /\ arg.grouping = "yearly" => label = <<dt[1]>>
            /\ arg.grouping = "none" => label = NoGroup
            /\ DateOf(dt) = <<2024, 6, 15>> =>
                  label = CASE arg.grouping = "daily"   -> <<2024, 6, 15>>
                            [] arg.grouping = "weekly"  -> <<2024, 6, 10>>
                            [] arg.grouping = "monthly" -> <<2024, 6>>
                            [] arg.grouping = "yearly"  -> <<2024>>
                            [] OTHER                    -> NoGroup

\* C17 witness: a Sunday in the new year was labelled, under weekly, with
\* the Monday of the old year.
C17_Witness ==
    /\ entry = "get_group_name"
    /\ pc = "done"
    /\ arg.grouping = "weekly"
    /\ DateOf(arg.recording_datetime) = <<2023, 12, 31>>
    /\ ret = << <<2023, 12, 25>> >>

\* C19: a raw DDMM.mmmm value decodes to DD + MM.mmmm/60, negative for a
\* latitude in hemisphere S and for a longitude in hemisphere W, positive
\* for N and E; 3725.0 gives 37 + 25/60 with N and the negated value with S.
\* Values are in 1/6000 of a degree, raw values in hundredths.
C19_CoordinateConversion ==
    (entry = "get_gps_data" /\ pc = "done") =>
        LET Magnitude(raw) == (raw \div 10000) * 6000 + (raw % 10000)
            loc == ret[1]
        IN  /\ arg.lat_hemi = "N" => loc.Lat = Magnitude(arg.lat_raw)
            /\ arg.lat_hemi = "S" => loc.Lat = 0 - Magnitude(arg.lat_raw)
            /\ arg.lon_hemi = "E" => loc.Lon = Magnitude(arg.lon_raw)
            /\ arg.lon_hemi = "W" => loc.Lon = 0 - Magnitude(arg.lon_raw)
            /\ (arg.lat_raw = 372500 /\ arg.lat_hemi = "N") => loc.Lat = 37 * 6000 + 2500
            /\ (arg.lat_raw = 372500 /\ arg.lat_hemi = "S") => loc.Lat = 0 - (37 * 6000 + 2500)

\* C19 witness: 3725.0 S, 12200.5 W was decoded into two negative values.
C19_Witness ==
    /\ entry = "get_gps_data"
    /\ pc = "done"
    /\ arg = [lat_hemi |-> "S", lon_hemi |-> "W", lat_raw |-> 372500, lon_raw |-> 1220050]
    /\ ret[1] = [Lat |-> 0 - 224500, Lon |-> 0 - 732050]

\* the table entries of the file whose chunk passes validation, in table
\* order, and the point each of them stands for
ValidEntries == SelectSeq([k \in 1..Len(mp4.entries) |-> k],
                          LAMBDA k : mp4.entries[k] = "ok")

ExpectedPoint(k) ==
    [lat |-> 37 * 6000 + 2500, lon |-> 0 - (122 * 6000 + 50),
     time |-> <<2024, 6, 15, 12, 0, k>>, speed |-> 5144440, course |-> 90]

Extracted == entry = "extract_gps_data" /\ files[file_path] # NoFile

\* C12: on a well-formed container, extraction ends normally whatever the
\* table entries point at, and the samples it decoded are those of the
\* entries whose chunk is valid, one each: an entry with a failing chunk
\* adds nothing and stops nothing.
C12_ChunkValidation ==
    (Extracted /\ mp4.structure = "normal" /\ pc = "done") =>
        /\ x_result \in {"written", "no_data"}
        /\ Len(gps_data) = Len(ValidEntries)
        /\ \A i \in 1..Len(gps_data) : TrackPoint(gps_data[i]) = ExpectedPoint(ValidEntries[i])

\* C14: the box scan never reads a header at the position of the header
\* it read just before: every header read moves the scan forward or ends it.
C14_Step == header_reads' = header_reads + 1 => last_read' # last_read

C14_ContainerWalkTerminates == [][C14_Step]_vars

\* C18: a written track-log holds one track with one segment, and the
\* points of the segment are the samples of the valid table entries, as
\* many and in table order.
C18_ScanOrderOutput ==
    (Extracted /\ gpx_file # <<>>) =>
        LET doc == gpx_file[1] IN
        /\ Len(doc) = 1
        /\ Len(doc[1]) = 1
        /\ Len(doc[1][1]) = Len(ValidEntries)
        /\ \A i \in 1..Len(ValidEntries) : doc[1][1][i] = ExpectedPoint(ValidEntries[i])

\* C18 witness: a file with two valid entries was extracted and its
\* track-log written.
C18_Witness ==
    /\ Extracted
    /\ mp4 = [structure |-> "normal", entries |-> <<"ok", "ok">>]
    /\ x_result = "written"
    /\ Len(gpx_file[1][1][1]) = 2
    /\ gpx_file[1][1][1][1].time[6] = 1
    /\ gpx_file[1][1][1][2].time[6] = 2

\* C20: when extraction is over, a track-log file exists exactly if at
\* least one sample was decoded, and what it holds is the document that was
\* built in memory.
C20_NoTelemetryOutcome ==
    (Extracted /\ pc = "done") =>
        /\ gpx_file # <<>> <=> gps_data # <<>>
        /\ file_path \in gpx <=> gps_data # <<>>
        /\ gpx_file # <<>> => gpx_file = gpx_content

C22_MonitorRetry ==
    (entry = "monitor" /\ monitor_result # "none") =>
        /\ pc # "done"
        /\ last_sizes[recording.filename] = NoSize

\* C23: when the download step of a polling cycle is over, every recording
\* the cycle queued (its probe answered and its size was new or different)
\* has been handed to download_file.
C23_MonitorChangeDetection ==
    (entry = "monitor" /\ pc = "done") =>
        \A i \in 1..Len(to_download) : to_download[i] = recording

====
